---- MODULE Spec2Model ----
(***************************************************************************)
(* Model of src/main.rs: the Cake Pattern sample.  An environment          *)
(* (RealWorld or tests::mock::env::TestWorld) owns a time component and a  *)
(* MemoryStorage; UserRepository::get / insert are the default methods of  *)
(* the trait every such environment gets.  The storage table is a          *)
(* BTreeMap<Name, User>, modelled as the sequence of its entries in key    *)
(* order.  A call that panics aborts the caller (status = "panicked").     *)
(***************************************************************************)
EXTENDS Integers, Sequences, FiniteSets

VARIABLES world, list, status, last

vars == <<world, list, status, last>>

(* ------------------------------ bounds -------------------------------- *)

\* How far Local::now() may be from T0 in the model.
MaxTicks == 2

\* Longest slice handed to save_all.
MaxEntries == 2

(* ------------------------------ values -------------------------------- *)

\* "2018-08-20T10:00:00 +0900" as seconds since the Unix epoch.
T0 == 1534726800

\* Name values, in the order derive(Ord) on the wrapped String gives them.
NameOrder == <<"user1", "user_a">>

Names == {NameOrder[i] : i \in DOMAIN NameOrder}

Emails == {"user1@example.com", "user_a@example.com"}

\* Timestamps the host clock may show.
Times == T0 .. (T0 + MaxTicks)

\* entity::user::User
User == [name : Names, email : Emails, create_time : Times, update_time : Times]

\* Users a caller may hand directly to the storage component.
InputUsers ==
  [name : Names, email : {"user_a@example.com"},
   create_time : {T0}, update_time : {T0, T0 + MaxTicks}]

\* Slices of (Name, User) a caller may hand to save_all.
InputEntries ==
  UNION {[1..n -> [name : Names, user : InputUsers]] : n \in 0..MaxEntries}

Unit == "unit"

Ok(v) == [kind |-> "Ok", val |-> v]

Err(e) == [kind |-> "Err", err |-> e]

Panic == [kind |-> "Panic"]

(* --------------------------- BTreeMap<Name, User> ---------------------- *)

NameRank(n) == CHOOSE i \in DOMAIN NameOrder : NameOrder[i] = n

\* Ord for Name
NameLt(a, b) == NameRank(a) < NameRank(b)

\* BTreeMap::get: None is {}, Some(v) is {v}.
BTreeMap_get(l, k) == {l[i].value : i \in {j \in DOMAIN l : l[j].key = k}}

\* BTreeMap::values: the values in key order.
BTreeMap_values(l) == [i \in DOMAIN l |-> l[i].value]

\* BTreeMap::insert: the map afterwards.
BTreeMap_insert(l, k, v) ==
  IF \E i \in DOMAIN l : l[i].key = k
  THEN [i \in DOMAIN l |-> IF l[i].key = k THEN [key |-> k, value |-> v] ELSE l[i]]
  ELSE SelectSeq(l, LAMBDA e : NameLt(e.key, k))
         \o <<[key |-> k, value |-> v]>>
         \o SelectSeq(l, LAMBDA e : NameLt(k, e.key))

Keys(l) == {l[i].key : i \in DOMAIN l}

(* ------------------------------ time ----------------------------------- *)

\* Chrono::now: whatever the host's local clock shows at the call.
Chrono_now == Times

\* Mutant: the mock delegates to the host clock.
MockTime_now_local == Chrono_now

\* MockTime::now: always the one hardcoded timestamp.
MockTime_now == {T0}

\* HaveTimeComponent::time_component().now() of environment w.
TimeComponent_now(w) == IF w = "TestWorld" THEN MockTime_now ELSE Chrono_now

(* ------------------------------ storage -------------------------------- *)

\* MemoryStorage::read: unwrap() of a missing key panics.
MemoryStorage_read(l, name) ==
  IF BTreeMap_get(l, name) = {}
  THEN Panic
  ELSE Ok(CHOOSE u \in BTreeMap_get(l, name) : TRUE)

\* Mutant: entry(name).or_insert(user), which keeps a record already there.
MemoryStorage_save_keep_existing(l, name, user) ==
  [res |-> Ok(Unit),
   list |-> IF BTreeMap_get(l, name) = {} THEN BTreeMap_insert(l, name, user) ELSE l,
   replaced |-> BTreeMap_get(l, name)]

\* Mutant: the table is rebuilt around the saved record.
MemoryStorage_save_clear(l, name, user) ==
  [res |-> Ok(Unit), list |-> BTreeMap_insert(<< >>, name, user),
   replaced |-> BTreeMap_get(l, name)]

\* MemoryStorage::save: the result, the map afterwards and the value
\* BTreeMap::insert handed back (dropped by .map(|_| ())).
MemoryStorage_save(l, name, user) ==
  [res |-> Ok(Unit), list |-> BTreeMap_insert(l, name, user),
   replaced |-> BTreeMap_get(l, name)]

\* Mutant: the values are collected without their duplicates.
MemoryStorage_read_all_dedup(l) ==
  LET kept == SelectSeq([i \in DOMAIN l |-> [at |-> i, value |-> l[i].value]],
                        LAMBDA e : \A j \in 1..(e.at - 1) : l[j].value # e.value)
  IN Ok([i \in DOMAIN kept |-> kept[i].value])

\* MemoryStorage::read_all
MemoryStorage_read_all(l) == Ok(BTreeMap_values(l))

\* The loop of MemoryStorage::save_all: the map after the entries from i on.
RECURSIVE SaveAllLoop(_, _, _)
SaveAllLoop(l, users, i) ==
  IF i > Len(users)
  THEN l
  ELSE SaveAllLoop(BTreeMap_insert(l, users[i].name, users[i].user), users, i + 1)

\* Mutant: the slice is walked from its end.
MemoryStorage_save_all_reversed(l, users) ==
  [res |-> Ok(Unit),
   list |-> SaveAllLoop(l, [i \in DOMAIN users |-> users[Len(users) + 1 - i]], 1)]

\* Mutant: the table is replaced by the slice.
MemoryStorage_save_all_replace(l, users) ==
  [res |-> Ok(Unit), list |-> SaveAllLoop(<< >>, users, 1)]

\* MemoryStorage::save_all
MemoryStorage_save_all(l, users) ==
  [res |-> Ok(Unit), list |-> SaveAllLoop(l, users, 1)]

\* A backend whose read and save may fail: it answers as the in-memory
\* table does (NotFound for a missing key), or reports an error and leaves
\* the table alone.
FaultyStorage_read(l, name) ==
  {IF BTreeMap_get(l, name) = {} THEN Err("NotFound") ELSE MemoryStorage_read(l, name)}
    \cup {Err("Io")}

FaultyStorage_save(l, name, user) ==
  {MemoryStorage_save(l, name, user),
   [res |-> Err("Io"), list |-> l, replaced |-> {}]}

\* user_storage_component().read(name) of environment w: the outcomes.
UserStorageComponent_read(w, l, name) ==
  IF w = "FaultyWorld"
  THEN FaultyStorage_read(l, name)
  ELSE {MemoryStorage_read(l, name)}

\* user_storage_component_mut().save(name, user) of environment w.
UserStorageComponent_save(w, l, name, user) ==
  IF w = "FaultyWorld"
  THEN FaultyStorage_save(l, name, user)
  ELSE {MemoryStorage_save(l, name, user)}

(* ----------------------------- repository ------------------------------ *)

\* Ok(read(name)?): an Err returns early with the same error.
GetResult(r) == IF r.kind = "Ok" THEN Ok(r.val) ELSE r

\* Mutant: let _ = save(name, user); Ok(())
InsertResult_swallow(r) == Ok(Unit)

\* save(name, user)?; Ok(())
InsertResult(r) == IF r.kind = "Err" THEN Err(r.err) ELSE Ok(Unit)

\* Mutant: the record is taken out of the table (remove) instead of cloned.
UserRepository_get_take(name) ==
  /\ status = "running"
  /\ \E r \in UserStorageComponent_read(world, list, name) :
       /\ last' = [op |-> "get", name |-> name, storage |-> r, result |-> GetResult(r)]
       /\ status' = IF r.kind = "Panic" THEN "panicked" ELSE status
  /\ list' = SelectSeq(list, LAMBDA e : e.key # name)
  /\ UNCHANGED world

\* UserRepository::get
UserRepository_get(name) ==
  /\ status = "running"
  /\ \E r \in UserStorageComponent_read(world, list, name) :
       /\ last' = [op |-> "get", name |-> name, storage |-> r, result |-> GetResult(r)]
       /\ status' = IF r.kind = "Panic" THEN "panicked" ELSE status
  /\ UNCHANGED <<world, list>>

\* Mutant: now() is called once for each timestamp field.
UserRepository_insert_two_nows(name, email) ==
  /\ status = "running"
  /\ \E now1 \in TimeComponent_now(world), now2 \in TimeComponent_now(world) :
       LET user == [name |-> name, email |-> email,
                    create_time |-> now1, update_time |-> now2]
       IN \E out \in UserStorageComponent_save(world, list, name, user) :
            /\ list' = out.list
            /\ last' = [op |-> "insert", name |-> name, email |-> email,
                        replaced |-> out.replaced, storage |-> out.res,
                        result |-> InsertResult(out.res)]
  /\ UNCHANGED <<world, status>>

\* UserRepository::insert
UserRepository_insert(name, email) ==
  /\ status = "running"
  /\ \E now \in TimeComponent_now(world) :
       LET user == [name |-> name, email |-> email,
                    create_time |-> now, update_time |-> now]
       IN \E out \in UserStorageComponent_save(world, list, name, user) :
            /\ list' = out.list
            /\ last' = [op |-> "insert", name |-> name, email |-> email,
                        replaced |-> out.replaced, storage |-> out.res,
                        result |-> InsertResult(out.res)]
  /\ UNCHANGED <<world, status>>

(* ------------------- the storage component, called directly ------------ *)

Read(name) ==
  /\ status = "running"
  /\ \E r \in UserStorageComponent_read(world, list, name) :
       /\ last' = [op |-> "read", name |-> name, result |-> r]
       /\ status' = IF r.kind = "Panic" THEN "panicked" ELSE status
  /\ UNCHANGED <<world, list>>

Save(name, user) ==
  /\ status = "running"
  /\ \E out \in UserStorageComponent_save(world, list, name, user) :
       /\ list' = out.list
       /\ last' = [op |-> "save", name |-> name, user |-> user,
                   replaced |-> out.replaced, result |-> out.res]
  /\ UNCHANGED <<world, status>>

ReadAll ==
  /\ status = "running"
  /\ last' = [op |-> "read_all", result |-> MemoryStorage_read_all(list)]
  /\ UNCHANGED <<world, list, status>>

SaveAll(users) ==
  /\ status = "running"
  /\ LET out == MemoryStorage_save_all(list, users)
     IN /\ list' = out.list
        /\ last' = [op |-> "save_all", users |-> users, result |-> out.res]
  /\ UNCHANGED <<world, status>>

(* --------------------------- specifications ---------------------------- *)

\* MemoryStorage::new
MemoryStorage_new == << >>

\* RealWorld::new / TestWorld::new
Init ==
  /\ world \in {"RealWorld", "TestWorld"}
  /\ list = MemoryStorage_new
  /\ status = "running"
  /\ last = [op |-> "new"]

Insert == \E name \in Names, email \in Emails : UserRepository_insert(name, email)

Get == \E name \in Names : UserRepository_get(name)

StorageRead == \E name \in Names : Read(name)

StorageSave == \E name \in Names, user \in InputUsers : Save(name, user)

StorageSaveAll == \E users \in InputEntries : SaveAll(users)

Next == Insert \/ Get \/ StorageRead \/ StorageSave \/ ReadAll \/ StorageSaveAll

\* Every operation of the environment: the repository and its storage component.
Spec == Init /\ [][Next]_vars

NextRepo == Insert \/ Get

\* Callers that use the repository only.
SpecRepo == Init /\ [][NextRepo]_vars

InitFaulty ==
  /\ world = "FaultyWorld"
  /\ list = MemoryStorage_new
  /\ status = "running"
  /\ last = [op |-> "new"]

\* The repository over a storage backend that may fail.
SpecFaulty == InitFaulty /\ [][NextRepo]_vars

TypeOK ==
  /\ world \in {"RealWorld", "TestWorld", "FaultyWorld"}
  /\ status \in {"running", "panicked"}
  /\ \A i \in DOMAIN list : list[i].key \in Names /\ list[i].value \in User

(* ------------------------------- claims -------------------------------- *)

\* What get(name) would hand the caller in storage state l of environment w.
GetOutcomes(w, l, name) == {GetResult(r) : r \in UserStorageComponent_read(w, l, name)}

\* C1: after insert(n, e) succeeds, get(n) returns a User with name n,
\* email e and create_time = update_time, whatever the storage held before
\* and whatever the clock shows.
C1_InsertThenGet ==
  (last.op = "insert" /\ last.result.kind = "Ok") =>
    \A g \in GetOutcomes(world, list, last.name) :
      /\ g.kind = "Ok"
      /\ g.val.name = last.name
      /\ g.val.email = last.email
      /\ g.val.create_time = g.val.update_time

\* An insert under the real clock into a table that also holds a record
\* whose two timestamps differ.
C1_Witness ==
  /\ world = "RealWorld"
  /\ last.op = "insert"
  /\ last.result.kind = "Ok"
  /\ Len(list) = 2
  /\ \E i \in DOMAIN list : list[i].value.create_time # list[i].value.update_time

\* C2: get(n) for a Name with no record returns the error NotFound to the
\* caller and does not panic.
C2_GetAbsentIsNotFound ==
  (last.op = "get" /\ BTreeMap_get(list, last.name) = {}) =>
    /\ status = "running"
    /\ last.result.kind = "Err"
    /\ last.result.err = "NotFound"

\* C3: after insert(n, e1) and then insert(n, e2) the table holds exactly
\* one record for n, and its email is e2.
C3_LastWriteWins ==
  (last.op = "insert" /\ last.result.kind = "Ok") =>
    /\ Cardinality({i \in DOMAIN list : list[i].key = last.name}) = 1
    /\ \A u \in BTreeMap_get(list, last.name) : u.email = last.email

\* A second insert for a Name whose record held another email.
C3_Witness ==
  /\ last.op = "insert"
  /\ \E u \in last.replaced : u.email # last.email
  /\ Len(list) = 2

\* C4: under MockTime every stored User, and every User get returns, has
\* create_time = T0 and update_time = T0.
C4_FixedClock ==
  world = "TestWorld" =>
    /\ \A i \in DOMAIN list :
         list[i].value.create_time = T0 /\ list[i].value.update_time = T0
    /\ (last.op = "get" /\ last.result.kind = "Ok") =>
         last.result.val.create_time = T0 /\ last.result.val.update_time = T0

\* A get that succeeds in the test environment after both Names were inserted.
C4_Witness ==
  /\ world = "TestWorld"
  /\ last.op = "get"
  /\ last.result.kind = "Ok"
  /\ Len(list) = 2

\* The table after save(name, user) for each entry of users, in order.
RECURSIVE SaveEach(_, _)
SaveEach(l, users) ==
  IF users = << >>
  THEN l
  ELSE SaveEach(MemoryStorage_save(l, Head(users).name, Head(users).user).list,
                Tail(users))

\* C5: save_all(entries) leaves the table as saving each entry in order
\* does; of several entries with one Name only the last can be read back.
C5_SaveAllIsRepeatedSave ==
  [][last'.op = "save_all" =>
       /\ list' = SaveEach(list, last'.users)
       /\ last'.result = Ok(Unit)
       /\ \A i \in DOMAIN last'.users :
            (\A j \in DOMAIN last'.users : j > i => last'.users[j].name # last'.users[i].name)
              => BTreeMap_get(list', last'.users[i].name) = {last'.users[i].user}]_vars

\* A save_all whose slice names one Name twice with different Users.
C5_Witness ==
  /\ last.op = "save_all"
  /\ \E i, j \in DOMAIN last.users :
       /\ i < j
       /\ last.users[i].name = last.users[j].name
       /\ last.users[i].user # last.users[j].user
       /\ BTreeMap_get(list, last.users[j].name) = {last.users[j].user}

CreateTimes(l, n) == {u.create_time : u \in BTreeMap_get(l, n)}

\* C6 as stated: once a record for n exists, no insert or get changes the
\* create_time stored for n.
C6_CreateTimeNeverChanges ==
  [][\A n \in Names :
       BTreeMap_get(list, n) # {} => CreateTimes(list', n) = CreateTimes(list, n)]_vars

\* C6 as amended: the create_time stored for n changes only when a later
\* insert(n, _) replaces the record, and the replacement's create_time
\* equals its update_time; get and an insert for another Name leave it alone.
C6_CreateTimeChangesOnlyOnReinsert ==
  [][\A n \in Names :
       BTreeMap_get(list, n) # {} =>
         \/ CreateTimes(list', n) = CreateTimes(list, n)
         \/ /\ last'.op = "insert"
            /\ last'.name = n
            /\ last'.result.kind = "Ok"
            /\ \A u \in BTreeMap_get(list', n) : u.create_time = u.update_time]_vars

\* A re-insert of a Name whose record carried another create_time.
C6_Witness ==
  /\ last.op = "insert"
  /\ \E u \in last.replaced :
       \A v \in BTreeMap_get(list, last.name) : v.create_time # u.create_time
  /\ Len(list) = 2

\* vals holds exactly the records of l: one per stored Name, none missing,
\* none repeated.
IsSnapshot(l, vals) ==
  /\ Len(vals) = Cardinality(Keys(l))
  /\ \A i \in DOMAIN vals : \E n \in Keys(l) : MemoryStorage_read(l, n) = Ok(vals[i])
  /\ \A n \in Keys(l) :
       /\ MemoryStorage_read(l, n).kind = "Ok"
       /\ Cardinality({i \in DOMAIN vals : Ok(vals[i]) = MemoryStorage_read(l, n)})
            = Cardinality({m \in Keys(l) : MemoryStorage_read(l, m) = MemoryStorage_read(l, n)})

\* C7: read_all succeeds, returns exactly the current records, one per
\* stored Name and each what read returns, and leaves the table unchanged.
C7_ReadAllIsSnapshot ==
  [][last'.op = "read_all" =>
       /\ list' = list
       /\ last'.result.kind = "Ok"
       /\ IsSnapshot(list, last'.result.val)]_vars

\* A read_all of a table whose two Names hold equal Users.
C7_Witness ==
  /\ last.op = "read_all"
  /\ Len(list) = 2
  /\ Len(last.result.val) = 2
  /\ last.result.val[1] = last.result.val[2]

\* C8: when the storage read or save fails, get or insert returns that
\* same failure and not a success.
C8_FailurePropagates ==
  (last.op \in {"get", "insert"} /\ last.storage.kind = "Err") =>
    last.result = last.storage

\* An insert whose save failed, into a table that holds a record.
C8_Witness ==
  /\ last.op = "insert"
  /\ last.storage.kind = "Err"
  /\ Len(list) = 1

\* C9: no operation removes a record: the set of stored Names never
\* loses an element.
C9_NoRecordRemoved == [][Keys(list) \subseteq Keys(list')]_vars

\* A save_all into a table that already held both Names.
C9_Witness ==
  /\ last.op = "save_all"
  /\ Len(last.users) = MaxEntries
  /\ Keys(list) = Names
  /\ \E i \in DOMAIN list : list[i].value.email = "user1@example.com"

\* C10: insert(n, e) leaves the record of every other Name as it was, and
\* get(n) for a stored n leaves the whole table unchanged.
C10_Frame ==
  [][/\ last'.op = "insert" =>
          \A m \in Names \ {last'.name} : BTreeMap_get(list', m) = BTreeMap_get(list, m)
     /\ (last'.op = "get" /\ BTreeMap_get(list, last'.name) # {}) => list' = list]_vars

\* An insert beside a record another Name holds, put there by save with
\* timestamps that differ.
C10_Witness ==
  /\ last.op = "insert"
  /\ \E i \in DOMAIN list :
       /\ list[i].key # last.name
       /\ list[i].value.create_time # list[i].value.update_time

====
